---------------------------- MODULE Spec2Model ----------------------------
(***************************************************************************)
(* State-machine model of the widgets of chai-aur-react.                   *)
(*                                                                         *)
(*  - currency converter: App (amount, from, to, convertedAmount), the     *)
(*    hook useCurrencyInfo (data, the rate fetches in flight) and the      *)
(*    InputBox controls;                                                   *)
(*  - password generator: App (length, numberAllowed, charAllowed,         *)
(*    password, copied, the copy timers, the clipboard);                   *)
(*  - counter: App (counter), and the example of the note on batched      *)
(*    updates (count);                                                     *)
(*  - context demo: UserContextProvider (user), Login, Profile;            *)
(*  - background changer: App (bgColor);                                   *)
(*  - router: the /github route with githubLoader and useLoaderData.       *)
(*                                                                         *)
(* React's scheduling is modelled as it is: the state sets of one handler  *)
(* are batched into one render; a set with an Object.is-equal value bails  *)
(* out; after the render the effects whose dependencies changed run, in    *)
(* hook order, before any other handler or promise callback runs.          *)
(***************************************************************************)
EXTENDS Integers, Sequences, FiniteSets, TLC

VARIABLES
    \* ---- currency converter: App
    amount,           \* useState(1); a number, or NaN
    from,             \* useState("usd")
    to,               \* useState("inr")
    convertedAmount,  \* useState(0); a number, or NaN
    \* ---- currency converter: useCurrencyInfo
    data,             \* useState({}): the rates state, currencyInfo in App
    inflight,         \* keys of the fetches issued and not yet settled, in issue order
    latestPending,    \* TRUE while the most recently issued fetch is in inflight (its last element)
    \* ---- currency converter: React scheduling
    pendFetch,        \* the effect of useCurrencyInfo is scheduled (its dependency changed)
    pendAuto,         \* the auto-conversion effect is scheduled
    event,            \* the handler or callback that started the current update
    changed,          \* number of auto-conversion dependencies that update changed
    runs,             \* number of auto-conversion runs since that update
    fetches,          \* number of fetches issued since that update
    wrote,            \* which fetch made the last write of data: "none", "current", "stale"
    dataKey,          \* the key of the fetch that wrote data, "none" before any write
    uncaught,         \* a rejection of the fetch promise chain was left unhandled
    settled,          \* the answer the fetch that settled last ended with
    mounted,          \* the App (and with it the hook) is mounted
    fromChanged,      \* the current update changed the value of from
    \* ---- the user
    quiet,            \* the user has stopped giving input to the converter
    \* ---- password generator: App
    length,           \* useState(12)
    numberAllowed,    \* useState(true)
    charAllowed,      \* useState(true)
    password,         \* useState(""): the characters of the displayed password
    copied,           \* useState(false)
    timers,           \* number of setTimeout callbacks of copy clicks not yet fired
    clipboard,        \* the text the last writeText call wrote to the clipboard
    copyClosure,      \* the password the memoised copyPasswordToClipboard closes over
    \* ---- password generator: React scheduling
    pwPend,           \* the generation effect is scheduled
    pwEvent,          \* the handler or callback that started the current update
    pwChanged,        \* that update changed length, numberAllowed or charAllowed
    pwGens,           \* number of passwordGenerator calls since that update
    \* ---- counter: App
    counter,          \* useState(15)
    adds,             \* number of clicks on "Add Value"
    removes,          \* number of clicks on "Remove Value"
    \* ---- counter: the handlers of the note on batched updates
    count,            \* the state of the note, 69 in its example
    form,             \* the form of the calls of the last handler: "direct", "functional"
    calls,            \* the number of setCount calls of the last handler
    before,           \* the value of count the last handler was rendered with
    \* ---- context demo: UserContextProvider, Login
    user,             \* useState(null): the user shared through the context
    loginUsername,    \* Login: useState(''), the username field
    loginPassword,    \* Login: useState(''), the password field
    cxEvent,          \* the handler that ran last
    alerted,          \* the last submit showed the alert
    lastOp,           \* the last operation that went through: "none", "login", "logout"
    lastCreds,        \* the fields of the last submit that went through
    \* ---- background changer: App
    bgColor,          \* useState('cyan')
    lastButton,       \* the button clicked last, 0 before any click
    seen,             \* the colors the clicks have set so far
    \* ---- router: RouterProvider, Github
    location,         \* the committed location: "/", "/github"
    navigation,       \* the router's navigation state: "idle", "loading"
    loads,            \* the githubLoader calls not yet settled: TRUE for the call of the current navigation
    element,          \* the route element rendered: "Home", "Github", "Error"
    loaderData,       \* what useLoaderData() yields in Github
    returned,         \* what the githubLoader call of the navigation committed last returned
    rtEvent,          \* the step that ran last
    visits            \* number of renders of Github with new loader data

ccVars == <<amount, from, to, convertedAmount, data, inflight, latestPending,
            pendFetch, pendAuto, event, changed, runs, fetches, wrote, dataKey,
            uncaught, settled, mounted, fromChanged>>

pwVars == <<length, numberAllowed, charAllowed, password, copied, timers,
            clipboard, copyClosure, pwPend, pwEvent, pwChanged, pwGens>>

cxVars == <<user, loginUsername, loginPassword, cxEvent, alerted, lastOp, lastCreds>>

bgVars == <<bgColor, lastButton, seen>>

rtVars == <<location, navigation, loads, element, loaderData, returned, rtEvent, visits>>

userVars == <<quiet>>

cnVars == <<counter, adds, removes>>

ntVars == <<count, form, calls, before>>

\* what the handlers of one widget leave alone
notCC == <<pwVars, userVars, cnVars, ntVars, cxVars, bgVars, rtVars>>
notPW == <<ccVars, userVars, cnVars, ntVars, cxVars, bgVars, rtVars>>
notCN == <<ccVars, pwVars, userVars, ntVars, cxVars, bgVars, rtVars>>
notNT == <<ccVars, pwVars, userVars, cnVars, cxVars, bgVars, rtVars>>

notCX == <<ccVars, pwVars, userVars, cnVars, ntVars, bgVars, rtVars>>

notBG == <<ccVars, pwVars, userVars, cnVars, ntVars, cxVars, rtVars>>

notRT == <<ccVars, pwVars, userVars, cnVars, ntVars, cxVars, bgVars>>

vars == <<ccVars, pwVars, userVars, cnVars, ntVars, cxVars, bgVars, rtVars>>

-----------------------------------------------------------------------------
(* Bounds of the model *)

\* amounts the user types are 0..MaxAmount; a swap is explored while the
\* value it moves into amount is within the same range
MaxAmount == 2

\* fetches in flight at once
MaxInflight == 2

\* the streams of Math.random() draws explored are numbered 0..MaxSeed
MaxSeed == 1

\* copy timers pending at once
MaxTimers == 2

-----------------------------------------------------------------------------
(* JavaScript values *)

\* NaN and undefined, as numbers outside the range of amounts and rates
NaN == 0 - 1
Undefined == 0 - 2

Currencies == {"usd", "inr"}

EmptyMap == [c \in {} |-> 0]

\* a JavaScript value held by the rates state: an object (t = "obj") with
\* its entries m, or undefined
JObj(m) == [t |-> "obj", m |-> m]
JUndefined == [t |-> "undefined", m |-> EmptyMap]
JNull == [t |-> "null", m |-> EmptyMap]

\* currencyInfo[to]
Get(d, k) == IF k \in DOMAIN d.m THEN d.m[k] ELSE Undefined

\* if (x): undefined, NaN and 0 are falsy
Truthy(x) == x # Undefined /\ x # NaN /\ x # 0

\* amount * currencyInfo[to]: a product with NaN or undefined is NaN
Mul(a, r) == IF a = NaN \/ r = NaN \/ r = Undefined THEN NaN ELSE a * r

\* v || {}
OrEmpty(v) == IF v.t = "obj" THEN v ELSE JObj(EmptyMap)

-----------------------------------------------------------------------------
(* The rates endpoint, as useCurrencyInfo sees it *)

\* the rates a well-formed answer for base k carries: all of them, or only
\* the base's own
FullRates(k) == [c \in Currencies |-> IF c = k THEN 1 ELSE IF k = "usd" THEN 2 ELSE 3]
OwnRates(k) == [c \in {k} |-> 1]

\* a body that is no JSON text
NoBody == [json |-> FALSE, top |-> "none", m |-> EmptyMap]

\* the texts an answer's body can hold: not JSON at all; the JSON value null;
\* a JSON object without an entry for k, with a null entry, or with rates
Bodies(k) ==
    { NoBody,
      [json |-> TRUE, top |-> "null", m |-> EmptyMap],
      [json |-> TRUE, top |-> "obj", m |-> EmptyMap],
      [json |-> TRUE, top |-> "obj", m |-> [c \in {k} |-> JNull]],
      [json |-> TRUE, top |-> "obj", m |-> [c \in {k} |-> JObj(FullRates(k))]],
      [json |-> TRUE, top |-> "obj", m |-> [c \in {k} |-> JObj(OwnRates(k))]] }

StatusOk == 200
StatusError == 500

\* no fetch has settled yet
NoResponse == [net |-> "none", status |-> 0, body |-> NoBody]

\* what a fetch for k can end with: no answer (network error), or an answer
\* with a status and a body
Responses(k) ==
    { [net |-> "error", status |-> 0, body |-> NoBody] }
    \cup { [net |-> "ok", status |-> st, body |-> b] : st \in {StatusOk, StatusError}, b \in Bodies(k) }

\* fetch(url): rejects on a network error only, whatever the status
FetchRejects(resp) == resp.net = "error"

\* res.json(): rejects when the body is not JSON
JsonRejects(resp) == ~resp.body.json

\* res[currency.toLowerCase()]: throws when res is null; undefined when the
\* object has no such entry (the currency codes are lower case throughout)
ExtractThrows(resp) == resp.body.top # "obj"
Entry(resp, k) == IF k \in DOMAIN resp.body.m THEN resp.body.m[k] ELSE JUndefined

\* the promise chain is rejected when it reaches .catch
Rejected(resp) == FetchRejects(resp) \/ JsonRejects(resp) \/ ExtractThrows(resp)

\* .catch(err => ...) is attached to the chain
HasCatch == TRUE

\* the same without the "|| {}" fallback
SetDataArgNoFallback(k, resp) == IF Rejected(resp) THEN JObj(EmptyMap) ELSE Entry(resp, k)

\* the argument of setData when the chain settles:
\* res[currency.toLowerCase()] || {} on success, {} in .catch
SetDataArg(k, resp) == IF Rejected(resp) THEN JObj(EmptyMap) ELSE OrEmpty(Entry(resp, k))

-----------------------------------------------------------------------------
(* Currency converter *)

Amounts == 0 .. MaxAmount

\* Object.keys(currencyInfo): the options of both dropdowns
Options == DOMAIN data.m

Idle == ~pendFetch /\ ~pendAuto

\* the effect taken as scheduled by every render
FetchScheduledAlways(currencyChanged) == TRUE

\* }, [currency]): the fetch effect is scheduled when currency (from) changed
FetchScheduled(currencyChanged) == currencyChanged

\* the dependency array without to
AutoScheduledWithoutTo(amountChanged, infoChanged, toChanged) ==
    amountChanged \/ infoChanged

\* the dependency array without amount
AutoScheduledWithoutAmount(amountChanged, infoChanged, toChanged) ==
    infoChanged \/ toChanged

\* the dependency array without currencyInfo
AutoScheduledWithoutInfo(amountChanged, infoChanged, toChanged) ==
    amountChanged \/ toChanged

\* }, [amount, currencyInfo, to]): the auto-conversion is scheduled when any
\* of the three changed, once for the render
AutoScheduled(amountChanged, infoChanged, toChanged) ==
    amountChanged \/ infoChanged \/ toChanged

B2N(b) == IF b THEN 1 ELSE 0

CCInit ==
    /\ amount = 1
    /\ from = "usd"
    /\ to = "inr"
    /\ convertedAmount = 0
    /\ data = JObj(EmptyMap)
    /\ inflight = <<>>
    /\ latestPending = FALSE
    /\ pendFetch = TRUE        \* on mount every effect runs once
    /\ pendAuto = TRUE
    /\ event = "mount"
    /\ changed = 0
    /\ runs = 0
    /\ fetches = 0
    /\ wrote = "none"
    /\ dataKey = "none"
    /\ uncaught = FALSE
    /\ settled = NoResponse
    /\ mounted = TRUE
    /\ fromChanged = FALSE
    /\ quiet = FALSE

\* the effect without its guard
AutoConvertUnguarded(conv, amt, info, target) == Mul(amt, Get(info, target))

\* the effect multiplying the previous result instead of amount
AutoConvertOfResult(conv, amt, info, target) ==
    IF Truthy(Get(info, target)) THEN Mul(conv, Get(info, target)) ELSE conv

\* the body of the auto-conversion effect: the value of convertedAmount after it
AutoConvert(conv, amt, info, target) ==
    IF Truthy(Get(info, target)) THEN Mul(amt, Get(info, target)) ELSE conv

\* convert(): the value it sets
ConvertValue(amt, info, target) == Mul(amt, Get(info, target))

\* The scheduled effects run, in hook order: useCurrencyInfo's fetch, then the
\* auto-conversion.  When setConvertedAmount changed the value a render
\* follows; it schedules the effects whose dependencies it changed, and
\* convertedAmount is a dependency of neither.
RunEffects ==
    /\ mounted
    /\ ~Idle
    /\ IF pendFetch
         THEN /\ inflight' = Append(inflight, from)
              /\ latestPending' = TRUE
              /\ fetches' = fetches + 1
         ELSE UNCHANGED <<inflight, latestPending, fetches>>
    /\ IF pendAuto
         THEN /\ convertedAmount' = AutoConvert(convertedAmount, amount, data, to)
              /\ runs' = runs + 1
         ELSE UNCHANGED <<convertedAmount, runs>>
    /\ pendFetch' = (convertedAmount' # convertedAmount /\ FetchScheduled(FALSE))
    /\ pendAuto' = (convertedAmount' # convertedAmount /\ AutoScheduled(FALSE, FALSE, FALSE))
    /\ UNCHANGED <<amount, from, to, data, event, changed, wrote, dataKey, uncaught>>
    /\ UNCHANGED <<settled, mounted>>
    /\ UNCHANGED fromChanged
    /\ UNCHANGED notCC

\* onAmountChange={(amount) => setAmount(amount)}
TypeAmount(a) ==
    /\ mounted
    /\ Idle
    /\ amount' = a
    /\ pendAuto' = AutoScheduled(a # amount, FALSE, FALSE)
    /\ event' = "type"
    /\ changed' = B2N(a # amount)
    /\ runs' = 0
    /\ fetches' = 0
    /\ UNCHANGED <<from, to, convertedAmount, data, inflight, latestPending,
                   pendFetch, wrote, dataKey, uncaught>>
    /\ UNCHANGED <<settled, mounted>>
    /\ fromChanged' = FALSE
    /\ UNCHANGED notCC

\* onCurrencyChange={(currency) => setFrom(currency)}
SelectFrom(c) ==
    /\ mounted
    /\ Idle
    /\ c \in Options
    /\ c # from => Len(inflight) < MaxInflight
    /\ from' = c
    /\ pendFetch' = FetchScheduled(c # from)
    /\ event' = "selectFrom"
    /\ changed' = 0
    /\ runs' = 0
    /\ fetches' = 0
    /\ UNCHANGED <<amount, to, convertedAmount, data, inflight, latestPending,
                   pendAuto, wrote, dataKey, uncaught>>
    /\ UNCHANGED <<settled, mounted>>
    /\ fromChanged' = (c # from)
    /\ UNCHANGED notCC

\* onCurrencyChange={(currency) => setTo(currency)}
SelectTo(c) ==
    /\ mounted
    /\ Idle
    /\ c \in Options
    /\ to' = c
    /\ pendAuto' = AutoScheduled(FALSE, FALSE, c # to)
    /\ event' = "selectTo"
    /\ changed' = B2N(c # to)
    /\ runs' = 0
    /\ fetches' = 0
    /\ UNCHANGED <<amount, from, convertedAmount, data, inflight, latestPending,
                   pendFetch, wrote, dataKey, uncaught>>
    /\ UNCHANGED <<settled, mounted>>
    /\ fromChanged' = FALSE
    /\ UNCHANGED notCC

\* swap with setAmount reading the value setConvertedAmount has just set
SwapSequential ==
    /\ mounted
    /\ Idle
    /\ convertedAmount <= MaxAmount
    /\ from # to => Len(inflight) < MaxInflight
    /\ from' = to
    /\ to' = from
    /\ convertedAmount' = amount
    /\ amount' = convertedAmount'
    /\ pendFetch' = FetchScheduled(to # from)
    /\ pendAuto' = AutoScheduled(convertedAmount # amount, FALSE, from # to)
    /\ event' = "swap"
    /\ changed' = B2N(from # to) + B2N(convertedAmount # amount)
    /\ runs' = 0
    /\ fetches' = 0
    /\ UNCHANGED <<data, inflight, latestPending, wrote, dataKey, uncaught>>
    /\ UNCHANGED <<settled, mounted>>
    /\ fromChanged' = (to # from)
    /\ UNCHANGED notCC

\* swap(): four sets, each reading the values of the render the click saw
Swap ==
    /\ mounted
    /\ Idle
    /\ convertedAmount <= MaxAmount
    /\ from # to => Len(inflight) < MaxInflight
    /\ from' = to
    /\ to' = from
    /\ convertedAmount' = amount
    /\ amount' = convertedAmount
    /\ pendFetch' = FetchScheduled(to # from)
    /\ pendAuto' = AutoScheduled(convertedAmount # amount, FALSE, from # to)
    /\ event' = "swap"
    /\ changed' = B2N(from # to) + B2N(convertedAmount # amount)
    /\ runs' = 0
    /\ fetches' = 0
    /\ UNCHANGED <<data, inflight, latestPending, wrote, dataKey, uncaught>>
    /\ UNCHANGED <<settled, mounted>>
    /\ fromChanged' = (to # from)
    /\ UNCHANGED notCC

\* convert(): convertedAmount is no dependency of any effect
Convert ==
    /\ mounted
    /\ Idle
    /\ convertedAmount' = ConvertValue(amount, data, to)
    /\ event' = "convert"
    /\ changed' = 0
    /\ runs' = 0
    /\ fetches' = 0
    /\ UNCHANGED <<amount, from, to, data, inflight, latestPending, pendFetch,
                   pendAuto, wrote, dataKey, uncaught>>
    /\ UNCHANGED <<settled, mounted>>
    /\ fromChanged' = FALSE
    /\ UNCHANGED notCC

\* whether the settling of the i-th fetch in flight may write the rates state:
\* the handlers hold no "still current" check, so it always may
MayWrite(i) == TRUE

\* React applies a state set only while the component that owns the state is
\* mounted; a set after the unmount is dropped.
StateLives(m) == m

\* The App is unmounted.  The effect of useCurrencyInfo returns no cleanup, so
\* the fetches in flight stay in flight and their callbacks stay registered.
Unmount ==
    /\ mounted
    /\ Idle
    /\ mounted' = FALSE
    /\ event' = "unmount"
    /\ changed' = 0
    /\ runs' = 0
    /\ fetches' = 0
    /\ fromChanged' = FALSE
    /\ UNCHANGED <<amount, from, to, convertedAmount, data, inflight, latestPending,
                   pendFetch, pendAuto, wrote, dataKey, uncaught, settled>>
    /\ UNCHANGED notCC

\* The i-th fetch in flight settles with resp: the promise chain of
\* useCurrencyInfo runs to its end.  Every setData passes a fresh object, so
\* currencyInfo changes and the auto-conversion is scheduled.
Resolve(i, resp) ==
    /\ Idle
    /\ i \in 1 .. Len(inflight)
    /\ resp \in Responses(inflight[i])
    /\ inflight' = [j \in 1 .. Len(inflight) - 1 |-> IF j < i THEN inflight[j] ELSE inflight[j + 1]]
    /\ latestPending' = (latestPending /\ i # Len(inflight))
    /\ event' = "resolve"
    /\ runs' = 0
    /\ fetches' = 0
    /\ IF StateLives(mounted) /\ MayWrite(i) /\ (HasCatch \/ ~Rejected(resp))
         THEN /\ data' = SetDataArg(inflight[i], resp)
              /\ dataKey' = inflight[i]
              /\ wrote' = IF latestPending /\ i = Len(inflight) THEN "current" ELSE "stale"
              /\ pendAuto' = AutoScheduled(FALSE, TRUE, FALSE)
              /\ changed' = 1
         ELSE /\ UNCHANGED <<data, dataKey, wrote, pendAuto>>
              /\ changed' = 0
    /\ uncaught' = (uncaught \/ (Rejected(resp) /\ ~HasCatch))
    /\ settled' = resp
    /\ fromChanged' = FALSE
    /\ UNCHANGED <<amount, from, to, convertedAmount, pendFetch, mounted>>
    /\ UNCHANGED notCC

-----------------------------------------------------------------------------
(* Password generator *)

SliderMin == 6
SliderMax == 50

Letters ==
    << "A", "B", "C", "D", "E", "F", "G", "H", "I", "J", "K", "L", "M",
       "N", "O", "P", "Q", "R", "S", "T", "U", "V", "W", "X", "Y", "Z",
       "a", "b", "c", "d", "e", "f", "g", "h", "i", "j", "k", "l", "m",
       "n", "o", "p", "q", "r", "s", "t", "u", "v", "w", "x", "y", "z" >>
Digits == << "0", "1", "2", "3", "4", "5", "6", "7", "8", "9" >>
Symbols ==
    << "!", "@", "#", "$", "%", "^", "&", "*", "-", "_", "+", "=",
       "[", "]", "{", "}", "~", "backtick" >>

\* let str = "ABC...xyz"; if (numberAllowed) str += "0123456789";
\* if (charAllowed) str += the 18 symbols ! @ # $ % ^ & * - _ + = [ ] { } ~ and
\* the backtick (written "backtick" below)
CharPool(numbers, chars) ==
    Letters \o (IF numbers THEN Digits ELSE <<>>) \o (IF chars THEN Symbols ELSE <<>>)

\* Math.random(): the i-th draw of stream seed, in thousandths; always below 1
\* (the streams pass through 0.000 and 0.999 within their first six draws)
RandomDraw(seed, i) == (seed * 307 + i * 173 + 654) % 1000

\* Math.floor(Math.random() * str.length)
RandomIndex(seed, i, n) == (RandomDraw(seed, i) * n) \div 1000

\* pass += str.charAt(char): charAt gives "" beyond the end of str
AppendCharAt(pass, str, idx) == IF idx < Len(str) THEN Append(pass, str[idx + 1]) ELSE pass

\* the loop with i < length
LoopStopsEarly(i, len) == i < len

\* the bounds of the loop: for (let i = 1; i <= length; i++)
LoopFirst == 1
LoopContinues(i, len) == i <= len

RECURSIVE GenLoop(_, _, _, _, _)
GenLoop(i, len, str, seed, pass) ==
    IF LoopContinues(i, len)
      THEN GenLoop(i + 1, len, str, seed, AppendCharAt(pass, str, RandomIndex(seed, i, Len(str))))
      ELSE pass

\* passwordGenerator(): the value it passes to setPassword
Generate(len, numbers, chars, seed) ==
    GenLoop(LoopFirst, len, CharPool(numbers, chars), seed, <<>>)

Seeds == 0 .. MaxSeed
SliderValues == SliderMin .. SliderMax

\* the effect without a dependency array: scheduled by every render
GenScheduledEveryRender(lengthChanged, numberChanged, charChanged, copiedChanged) == TRUE

\* the dependency array with copied in it
GenScheduledWithCopied(lengthChanged, numberChanged, charChanged, copiedChanged) ==
    lengthChanged \/ numberChanged \/ charChanged \/ copiedChanged

\* }, [length, numberAllowed, charAllowed, passwordGenerator]): the generation
\* effect is scheduled when one of them changed; passwordGenerator is a
\* useCallback over the same three values and changes when they do.  password
\* and copied are no dependencies.
GenScheduled(lengthChanged, numberChanged, charChanged, copiedChanged) ==
    lengthChanged \/ numberChanged \/ charChanged

\* copyPasswordToClipboard memoised once for all: useCallback(..., [])
CopyCallbackNever(passwordChanged) == FALSE

\* }, [password]): copyPasswordToClipboard is made anew, closing over the
\* password of the render, when password changed
CopyCallbackRenewed(passwordChanged) == passwordChanged

\* the slider positions of the whole App's specification: both ends
SliderStops == {SliderMin, SliderMax}

\* getPasswordStrength with Strong asking for numbers and symbols both
getPasswordStrengthBoth(len, numbers, chars) ==
    IF len >= 16 /\ numbers /\ chars THEN "Very Strong"
    ELSE IF len >= 12 /\ (numbers /\ chars) THEN "Strong"
    ELSE IF len >= 8 THEN "Medium"
    ELSE "Weak"

\* getPasswordStrength(): the text of the label
getPasswordStrength(len, numbers, chars) ==
    IF len >= 16 /\ numbers /\ chars THEN "Very Strong"
    ELSE IF len >= 12 /\ (numbers \/ chars) THEN "Strong"
    ELSE IF len >= 8 THEN "Medium"
    ELSE "Weak"

\* const strength = getPasswordStrength(), computed by every render
strength == getPasswordStrength(length, numberAllowed, charAllowed)

PWInit ==
    /\ length = 12
    /\ numberAllowed = TRUE
    /\ charAllowed = TRUE
    /\ password = <<>>
    /\ copied = FALSE
    /\ timers = 0
    /\ clipboard = <<>>
    /\ copyClosure = <<>>
    /\ pwPend = TRUE          \* on mount the effect runs once
    /\ pwEvent = "mount"
    /\ pwChanged = FALSE
    /\ pwGens = 0

\* the effect also resetting the copied flag
PWRunEffectResetsCopied(seed) ==
    /\ pwPend
    /\ password' = Generate(length, numberAllowed, charAllowed, seed)
    /\ pwGens' = pwGens + 1
    /\ pwPend' = (password' # password /\ GenScheduled(FALSE, FALSE, FALSE, FALSE))
    /\ copied' = FALSE
    /\ UNCHANGED <<length, numberAllowed, charAllowed, timers, pwEvent, pwChanged>>
    /\ copyClosure' = IF CopyCallbackRenewed(password' # password) THEN password' ELSE copyClosure
    /\ UNCHANGED clipboard
    /\ UNCHANGED notPW

\* useEffect(() => { passwordGenerator() }, [length, numberAllowed,
\* charAllowed, passwordGenerator]); when setPassword changed the value a
\* render follows, which schedules the effect if it changed a dependency
PWRunEffect(seed) ==
    /\ pwPend
    /\ password' = Generate(length, numberAllowed, charAllowed, seed)
    /\ pwGens' = pwGens + 1
    /\ pwPend' = (password' # password /\ GenScheduled(FALSE, FALSE, FALSE, FALSE))
    /\ UNCHANGED <<length, numberAllowed, charAllowed, copied, timers, pwEvent, pwChanged>>
    /\ copyClosure' = IF CopyCallbackRenewed(password' # password) THEN password' ELSE copyClosure
    /\ UNCHANGED clipboard
    /\ UNCHANGED notPW

\* onChange={(e) => setLength(parseInt(e.target.value))} of the range input
Slide(v) ==
    /\ ~pwPend
    /\ length' = v
    /\ pwPend' = GenScheduled(v # length, FALSE, FALSE, FALSE)
    /\ pwEvent' = "slide"
    /\ pwChanged' = (v # length)
    /\ pwGens' = 0
    /\ UNCHANGED <<numberAllowed, charAllowed, password, copied, timers>>
    /\ UNCHANGED <<clipboard, copyClosure>>
    /\ UNCHANGED notPW

\* onChange={() => setNumberAllowed(prev => !prev)}
ToggleNumber ==
    /\ ~pwPend
    /\ numberAllowed' = ~numberAllowed
    /\ pwPend' = GenScheduled(FALSE, TRUE, FALSE, FALSE)
    /\ pwEvent' = "toggleNumber"
    /\ pwChanged' = TRUE
    /\ pwGens' = 0
    /\ UNCHANGED <<length, charAllowed, password, copied, timers>>
    /\ UNCHANGED <<clipboard, copyClosure>>
    /\ UNCHANGED notPW

\* onChange={() => setCharAllowed(prev => !prev)}
ToggleChar ==
    /\ ~pwPend
    /\ charAllowed' = ~charAllowed
    /\ pwPend' = GenScheduled(FALSE, FALSE, TRUE, FALSE)
    /\ pwEvent' = "toggleChar"
    /\ pwChanged' = TRUE
    /\ pwGens' = 0
    /\ UNCHANGED <<length, numberAllowed, password, copied, timers>>
    /\ UNCHANGED <<clipboard, copyClosure>>
    /\ UNCHANGED notPW

\* onClick={passwordGenerator}: both the refresh button and "Generate New Password"
Regenerate(seed) ==
    /\ ~pwPend
    /\ password' = Generate(length, numberAllowed, charAllowed, seed)
    /\ pwEvent' = "regenerate"
    /\ pwChanged' = FALSE
    /\ pwGens' = 1
    /\ UNCHANGED <<length, numberAllowed, charAllowed, copied, timers, pwPend>>
    /\ copyClosure' = IF CopyCallbackRenewed(password' # password) THEN password' ELSE copyClosure
    /\ UNCHANGED clipboard
    /\ UNCHANGED notPW

\* copyPasswordToClipboard(): selects the field, writes the clipboard,
\* setCopied(true), setTimeout(() => setCopied(false), 2000)
Copy ==
    /\ ~pwPend
    /\ timers < MaxTimers
    /\ copied' = TRUE
    /\ timers' = timers + 1
    /\ pwPend' = GenScheduled(FALSE, FALSE, FALSE, ~copied)
    /\ pwEvent' = "copy"
    /\ pwChanged' = FALSE
    /\ pwGens' = 0
    /\ UNCHANGED <<length, numberAllowed, charAllowed, password>>
    /\ clipboard' = copyClosure
    /\ UNCHANGED copyClosure
    /\ UNCHANGED notPW

\* the timer callback leaving copied as it is
TimerFiresKeepsCopied ==
    /\ ~pwPend
    /\ timers > 0
    /\ copied' = copied
    /\ timers' = timers - 1
    /\ pwPend' = GenScheduled(FALSE, FALSE, FALSE, FALSE)
    /\ pwEvent' = "timer"
    /\ pwChanged' = FALSE
    /\ pwGens' = 0
    /\ UNCHANGED <<length, numberAllowed, charAllowed, password>>
    /\ UNCHANGED <<clipboard, copyClosure>>
    /\ UNCHANGED notPW

\* () => setCopied(false), 2000 ms after a copy click
TimerFires ==
    /\ ~pwPend
    /\ timers > 0
    /\ copied' = FALSE
    /\ timers' = timers - 1
    /\ pwPend' = GenScheduled(FALSE, FALSE, FALSE, copied)
    /\ pwEvent' = "timer"
    /\ pwChanged' = FALSE
    /\ pwGens' = 0
    /\ UNCHANGED <<length, numberAllowed, charAllowed, password>>
    /\ UNCHANGED <<clipboard, copyClosure>>
    /\ UNCHANGED notPW

\* the generation at every position of the slider
GenNext ==
    \/ \E seed \in Seeds : PWRunEffect(seed)
    \/ \E v \in SliderValues : Slide(v)
    \/ ToggleNumber
    \/ ToggleChar
    \/ \E seed \in Seeds : Regenerate(seed)

\* the whole App, the slider moved to its ends
PWNext ==
    \/ \E seed \in Seeds : PWRunEffect(seed)
    \/ \E v \in SliderStops : Slide(v)
    \/ ToggleNumber
    \/ ToggleChar
    \/ \E seed \in Seeds : Regenerate(seed)
    \/ Copy
    \/ TimerFires

-----------------------------------------------------------------------------
(* React's update queue *)

\* setCount(value): the update carries the value computed when it was called
DirectUpdate(v) == [fn |-> FALSE, v |-> v]

\* setCount(prev => prev + d): the update carries the function
FunctionalUpdate(d) == [fn |-> TRUE, v |-> d]

\* an update taken as computed from the state the updates before it left
ApplyUpdateEager(s, u) == IF u.fn THEN s + u.v ELSE s + 1

\* the render applies one queued update to the state the updates before it left
ApplyUpdate(s, u) == IF u.fn THEN s + u.v ELSE u.v

\* the render after a handler applies the queued updates of the handler in order
RECURSIVE ProcessQueue(_, _)
ProcessQueue(s, q) ==
    IF q = <<>> THEN s ELSE ProcessQueue(ApplyUpdate(s, Head(q)), Tail(q))

-----------------------------------------------------------------------------
(* Counter *)

MaxClicks == 16

CounterStart == 15

CNInit ==
    /\ counter = CounterStart
    /\ adds = 0
    /\ removes = 0

\* addValue subtracting
AddValueDown ==
    /\ adds < MaxClicks
    /\ counter' = ProcessQueue(counter, <<DirectUpdate(counter - 1)>>)
    /\ adds' = adds + 1
    /\ UNCHANGED removes
    /\ UNCHANGED notCN

\* addValue: setCounter(counter + 1), counter being the value of this render
AddValue ==
    /\ adds < MaxClicks
    /\ counter' = ProcessQueue(counter, <<DirectUpdate(counter + 1)>>)
    /\ adds' = adds + 1
    /\ UNCHANGED removes
    /\ UNCHANGED notCN

\* removeValue: setCounter(counter - 1)
RemoveValue ==
    /\ removes < MaxClicks
    /\ counter' = ProcessQueue(counter, <<DirectUpdate(counter - 1)>>)
    /\ removes' = removes + 1
    /\ UNCHANGED adds
    /\ UNCHANGED notCN

CNNext ==
    \/ AddValue
    \/ RemoveValue

-----------------------------------------------------------------------------
(* Counter: the handlers of the note on batched updates *)

MaxCalls == 3

MaxRise == 20

NoteStart == 69

NTInit ==
    /\ count = NoteStart
    /\ form = "none"
    /\ calls = 0
    /\ before = NoteStart

\* k times setCount(count + 1) in one handler: every call reads the count of
\* the render the handler belongs to
DirectCalls(c, k) == [i \in 1 .. k |-> DirectUpdate(c + 1)]

\* k times setCount(prev => prev + 1) in one handler
FunctionalCalls(k) == [i \in 1 .. k |-> FunctionalUpdate(1)]

AddDirect(k) ==
    /\ count < NoteStart + MaxRise
    /\ count' = ProcessQueue(count, DirectCalls(count, k))
    /\ form' = "direct"
    /\ calls' = k
    /\ before' = count
    /\ UNCHANGED notNT

AddFunctional(k) ==
    /\ count < NoteStart + MaxRise
    /\ count' = ProcessQueue(count, FunctionalCalls(k))
    /\ form' = "functional"
    /\ calls' = k
    /\ before' = count
    /\ UNCHANGED notNT

NTNext ==
    \/ \E k \in 1 .. MaxCalls : AddDirect(k)
    \/ \E k \in 1 .. MaxCalls : AddFunctional(k)

-----------------------------------------------------------------------------
(* Context demo: UserContextProvider, Login, Profile *)

MaxText == 2

\* the characters typed into a field
Chars == {" ", "a"}

\* the texts of a field, as sequences of characters
Texts == UNION {[1 .. n -> Chars] : n \in 0 .. MaxText}

\* s without its first, without its last character
DropFirst(s) == [i \in 1 .. Len(s) - 1 |-> s[i + 1]]
DropLast(s) == [i \in 1 .. Len(s) - 1 |-> s[i]]

\* trim() leaving the text as it is
TrimNothing(s) == s

\* String.prototype.trim(): the text without leading and trailing white space
RECURSIVE Trim(_)
Trim(s) ==
    IF s = <<>> THEN s
    ELSE IF s[1] = " " THEN Trim(DropFirst(s))
    ELSE IF s[Len(s)] = " " THEN Trim(DropLast(s))
    ELSE s

\* a string as a condition: the empty string is falsy
TruthyText(s) == s # <<>>

\* useState(null)
NoUser == [set |-> FALSE, username |-> <<>>, password |-> <<>>]

\* { username, password }
UserOf(u, p) == [set |-> TRUE, username |-> u, password |-> p]

\* Profile: what it renders from the user of the context
ProfileView ==
    IF ~user.set
        THEN [text |-> "Please log in first", username |-> <<>>, logout |-> FALSE]
        ELSE [text |-> "Logged In", username |-> user.username, logout |-> TRUE]

CXInit ==
    /\ user = NoUser
    /\ loginUsername = <<>>
    /\ loginPassword = <<>>
    /\ cxEvent = "mount"
    /\ alerted = FALSE
    /\ lastOp = "none"
    /\ lastCreds = <<<<>>, <<>>>>

\* onChange={(e) => setUsername(e.target.value)}
TypeUsername(t) ==
    /\ loginUsername' = t
    /\ cxEvent' = "type"
    /\ UNCHANGED <<user, loginPassword, alerted, lastOp, lastCreds>>
    /\ UNCHANGED notCX

\* onChange={(e) => setPassword(e.target.value)}
TypePassword(t) ==
    /\ loginPassword' = t
    /\ cxEvent' = "type"
    /\ UNCHANGED <<user, loginUsername, alerted, lastOp, lastCreds>>
    /\ UNCHANGED notCX

\* Login.handleSubmit
handleSubmit ==
    /\ cxEvent' = "submit"
    /\ IF TruthyText(Trim(loginUsername)) /\ TruthyText(Trim(loginPassword))
         THEN /\ user' = UserOf(loginUsername, loginPassword)
              /\ loginUsername' = <<>>
              /\ loginPassword' = <<>>
              /\ alerted' = FALSE
              /\ lastOp' = "login"
              /\ lastCreds' = <<loginUsername, loginPassword>>
         ELSE /\ alerted' = TRUE
              /\ UNCHANGED <<user, loginUsername, loginPassword, lastOp, lastCreds>>
    /\ UNCHANGED notCX

\* handleLogout leaving the user
handleLogoutKeeps ==
    /\ ProfileView.logout
    /\ user' = user
    /\ cxEvent' = "logout"
    /\ lastOp' = "logout"
    /\ UNCHANGED <<loginUsername, loginPassword, alerted, lastCreds>>
    /\ UNCHANGED notCX

\* Profile.handleLogout; the button is rendered for a logged-in user only
handleLogout ==
    /\ ProfileView.logout
    /\ user' = NoUser
    /\ cxEvent' = "logout"
    /\ lastOp' = "logout"
    /\ UNCHANGED <<loginUsername, loginPassword, alerted, lastCreds>>
    /\ UNCHANGED notCX

CXNext ==
    \/ \E t \in Texts : TypeUsername(t)
    \/ \E t \in Texts : TypePassword(t)
    \/ handleSubmit
    \/ handleLogout

-----------------------------------------------------------------------------
(* Background changer *)

\* onClick={() => setBgColor(...)} of the buttons, in the order of the panel
ButtonSets ==
    << "red", "green", "skyblue", "magenta", "green", "cyan", "purple",
       "orange", "yellow", "black", "white", "gray", "pink", "brown" >>

\* style={{backgroundColor: ...}} of the buttons: the color each one shows
ButtonStyles ==
    << "red", "green", "skyblue", "magenta", "green", "cyan", "purple",
       "orange", "yellow", "black", "white", "gray", "pink", "brown" >>

Buttons == DOMAIN ButtonSets

BGInit ==
    /\ bgColor = "cyan"
    /\ lastButton = 0
    /\ seen = {}

\* a click setting the color of the button next in the panel
ClickNeighbour(i) ==
    /\ bgColor' = ButtonSets[(i % Len(ButtonSets)) + 1]
    /\ lastButton' = i
    /\ seen' = seen \cup {bgColor'}
    /\ UNCHANGED notBG

\* a click on the i-th button: setBgColor of its color
Click(i) ==
    /\ bgColor' = ButtonSets[i]
    /\ lastButton' = i
    /\ seen' = seen \cup {ButtonSets[i]}
    /\ UNCHANGED notBG

BGNext == \E i \in Buttons : Click(i)

-----------------------------------------------------------------------------
(* Router: the /github route with its loader, and the index route *)

MaxLoads == 2

MaxFollowers == 2

MaxVisits == 3

\* no loader data: no navigation to /github has been committed
NoData == [loaded |-> FALSE, followers |-> 0]

\* the JSON res.json() resolves with
Json(f) == [loaded |-> TRUE, followers |-> f]

\* githubLoader: await fetch(...), return res.json(); the promise resolves
\* with the parsed body or rejects (network error, body that is no JSON)
LoaderOutcomes ==
    {[ok |-> TRUE, value |-> Json(f)] : f \in 0 .. MaxFollowers}
    \cup {[ok |-> FALSE, value |-> NoData]}

\* a new navigation interrupts the one in progress: its loader calls are
\* no longer those of the current navigation
Interrupted(ls) == [i \in 1 .. Len(ls) |-> FALSE]

RTInit ==
    /\ location = "/"
    /\ navigation = "idle"
    /\ loads = <<>>
    /\ element = "Home"
    /\ loaderData = NoData
    /\ returned = NoData
    /\ rtEvent = "mount"
    /\ visits = 0

\* the link rendering Github at once, as a component that fetches in an
\* effect does
NavigateGithubEager ==
    /\ Len(loads) < MaxLoads
    /\ loads' = Append(Interrupted(loads), TRUE)
    /\ navigation' = "loading"
    /\ rtEvent' = "navigate"
    /\ location' = "/github"
    /\ element' = "Github"
    /\ UNCHANGED <<loaderData, returned, visits>>
    /\ UNCHANGED notRT

\* a navigation to /github: the router calls githubLoader and keeps the page
\* it shows until the loader has settled
NavigateGithub ==
    /\ Len(loads) < MaxLoads
    /\ loads' = Append(Interrupted(loads), TRUE)
    /\ navigation' = "loading"
    /\ rtEvent' = "navigate"
    /\ UNCHANGED <<location, element, loaderData, returned, visits>>
    /\ UNCHANGED notRT

\* a navigation to /, a route without loader: committed at once
NavigateHome ==
    /\ loads' = Interrupted(loads)
    /\ navigation' = "idle"
    /\ location' = "/"
    /\ element' = "Home"
    /\ rtEvent' = "home"
    /\ UNCHANGED <<loaderData, returned, visits>>
    /\ UNCHANGED notRT

\* the i-th githubLoader call settles.  The router commits the navigation it
\* belongs to, if that is still the current one: with the value, rendering
\* Github, or with the error, rendering the error element.
githubLoader(i, out) ==
    /\ i \in 1 .. Len(loads)
    /\ loads[i] => visits < MaxVisits
    /\ loads' = [j \in 1 .. Len(loads) - 1 |-> IF j < i THEN loads[j] ELSE loads[j + 1]]
    /\ IF loads[i]
         THEN /\ navigation' = "idle"
              /\ location' = "/github"
              /\ rtEvent' = IF out.ok THEN "resolved" ELSE "rejected"
              /\ element' = IF out.ok THEN "Github" ELSE "Error"
              /\ loaderData' = out.value
              /\ returned' = out.value
              /\ visits' = IF out.ok THEN visits + 1 ELSE visits
         ELSE /\ rtEvent' = "discarded"
              /\ UNCHANGED <<navigation, location, element, loaderData, returned, visits>>
    /\ UNCHANGED notRT

RTNext ==
    \/ NavigateGithub
    \/ NavigateHome
    \/ \E i \in 1 .. MaxLoads : \E out \in LoaderOutcomes : githubLoader(i, out)

-----------------------------------------------------------------------------

Next ==
    \/ RunEffects
    \/ \E a \in Amounts : TypeAmount(a)
    \/ \E c \in Currencies : SelectFrom(c)
    \/ \E c \in Currencies : SelectTo(c)
    \/ Swap
    \/ Convert
    \/ Unmount
    \/ \E i \in 1 .. MaxInflight : \E resp \in UNION {Responses(k) : k \in Currencies} : Resolve(i, resp)

\* the answer of the endpoint to a fetch for k that succeeds: k's rates
OkResponse(k) ==
    [net |-> "ok", status |-> StatusOk,
     body |-> [json |-> TRUE, top |-> "obj", m |-> [c \in {k} |-> JObj(FullRates(k))]]]

\* the oldest fetch in flight resolves with the rates of its key
ResolveInOrder ==
    /\ inflight # <<>>
    /\ Resolve(1, OkResponse(inflight[1]))

\* the user gives no input after this swap
StopInput ==
    /\ event = "swap"
    /\ ~quiet
    /\ quiet' = TRUE
    /\ UNCHANGED <<ccVars, pwVars, cnVars, ntVars, cxVars, bgVars, rtVars>>

\* the converter while every fetch resolves, in issue order, and the user may
\* stop after a swap
NextSettle ==
    \/ RunEffects
    \/ ~quiet /\ \E a \in Amounts : TypeAmount(a)
    \/ ~quiet /\ \E c \in Currencies : SelectFrom(c)
    \/ ~quiet /\ \E c \in Currencies : SelectTo(c)
    \/ ~quiet /\ Swap
    \/ ~quiet /\ Convert
    \/ StopInput
    \/ ResolveInOrder

\* the two widgets that hold an effect deriving one cell from others, side by
\* side: the converter with its fetches resolving in issue order, the password
\* generator at the length it starts with
NextBoth ==
    \/ RunEffects
    \/ \E a \in Amounts : TypeAmount(a)
    \/ \E c \in Currencies : SelectTo(c)
    \/ Swap
    \/ ResolveInOrder
    \/ \E seed \in Seeds : PWRunEffect(seed)
    \/ ToggleNumber
    \/ Copy

Init == CCInit /\ PWInit /\ CNInit /\ NTInit /\ CXInit /\ BGInit /\ RTInit

\* the currency converter
Spec == Init /\ [][Next]_vars

\* the password generator
SpecPW == Init /\ [][PWNext]_vars

\* the generation of passwords, for every length of the slider
SpecGen == Init /\ [][GenNext]_vars

\* the currency converter whose fetches resolve in issue order: a scheduled
\* effect runs, and a fetch in flight resolves
SpecSettle ==
    Init /\ [][NextSettle]_vars /\ WF_vars(RunEffects) /\ WF_vars(ResolveInOrder)

\* the password generator at the length it starts with; a scheduled effect
\* runs, and a timer that was set fires
PWNextCopy ==
    \/ \E seed \in Seeds : PWRunEffect(seed)
    \/ ToggleNumber
    \/ ToggleChar
    \/ \E seed \in Seeds : Regenerate(seed)
    \/ Copy
    \/ TimerFires

SpecPWCopy ==
    /\ Init
    /\ [][PWNextCopy]_vars
    /\ WF_vars(\E seed \in Seeds : PWRunEffect(seed))
    /\ SF_vars(TimerFires)

\* the answer to a fetch that fails: a network error
FailResponse == [net |-> "error", status |-> 0, body |-> NoBody]

\* the oldest fetch in flight fails
FailInOrder ==
    /\ inflight # <<>>
    /\ Resolve(1, FailResponse)

\* the effects of both widgets, the fetches resolving or failing oldest first;
\* a scheduled effect runs
NextEffects ==
    \/ RunEffects
    \/ \E a \in Amounts : TypeAmount(a)
    \/ Swap
    \/ ResolveInOrder
    \/ FailInOrder
    \/ \E seed \in Seeds : PWRunEffect(seed)
    \/ ToggleNumber

SpecEffects ==
    /\ Init
    /\ [][NextEffects]_vars
    /\ WF_vars(RunEffects)
    /\ WF_vars(\E seed \in Seeds : PWRunEffect(seed))

\* the converter and the password generator
SpecBoth == Init /\ [][NextBoth]_vars

\* the counter
SpecCounter == Init /\ [][CNNext]_vars

\* the handlers of the note on batched updates
SpecBatch == Init /\ [][NTNext]_vars

\* the context demo
SpecContext == Init /\ [][CXNext]_vars

\* the background changer
SpecBg == Init /\ [][BGNext]_vars

\* the router
SpecRouter == Init /\ [][RTNext]_vars

-----------------------------------------------------------------------------
(* Properties of the currency converter (under Spec) *)

AllResponses == UNION {Responses(k) : k \in Currencies}

HasEntry == to \in DOMAIN data.m

Quiescent == Idle /\ inflight = <<>>

\* C1: once every fetch has settled and every effect has run, the rates state
\* holds the result of the fetch for the current base currency (the fetch
\* issued last), never that of a superseded fetch.
C1_SupersededFetch == (Quiescent /\ dataKey # "none") => dataKey = from

\* C2: only the most recently issued fetch ever writes the rates state; the
\* settling of an earlier fetch performs no write.
C2_StaleDiscarded == wrote # "stale"

\* the claim's failures: a network error, a body that cannot be parsed as
\* JSON (or parses to null), or a JSON object with no entry for the base k
FailedOrLacking(resp, k) ==
    \/ resp.net = "error"
    \/ ~resp.body.json
    \/ resp.body.top # "obj"
    \/ k \notin DOMAIN resp.body.m

\* C3: the rates state is always a mapping and no rejection goes unhandled;
\* after a fetch that failed or whose body lacks the entry of the requested
\* base currency, the rates state is the empty mapping.
C3_FailureFallback ==
    /\ data.t = "obj"
    /\ ~uncaught
    /\ (mounted /\ settled.net # "none" /\ FailedOrLacking(settled, dataKey)) => data = JObj(EmptyMap)

\* a fetch whose body was no JSON has settled, after an earlier write
C3_Witness ==
    /\ settled.net = "ok"
    /\ ~settled.body.json
    /\ event = "resolve"
    /\ data = JObj(EmptyMap)
    /\ Idle

\* C4: after a fetch answered with a non-success status, whatever its body,
\* the rates state is the empty mapping.
C4_ErrorStatusIsFailure == settled.status = StatusError => data = JObj(EmptyMap)

\* C5: a run of the auto-conversion while the rates state has no entry for
\* to leaves convertedAmount as it was, and the handlers other than swap and
\* Convert (typing an amount, selecting a currency, a write of the rates
\* state) do not write it themselves; until the first rates arrive nothing
\* but swap and the Convert button moves it from 0.
C5_GuardedAutoConversion ==
    [][ /\ (RunEffects /\ pendAuto /\ ~HasEntry) => convertedAmount' = convertedAmount
        /\ (Idle /\ ~Swap /\ ~Convert) => convertedAmount' = convertedAmount
        /\ (wrote = "none" /\ convertedAmount = 0 /\ ~Swap /\ ~Convert)
           => convertedAmount' = 0 ]_vars

\* the amount was changed before any rates arrived, the effect ran, and
\* convertedAmount is still 0
C5_Witness ==
    /\ event = "type"
    /\ amount = 2
    /\ runs = 1
    /\ Idle
    /\ wrote = "none"
    /\ convertedAmount = 0

\* C6: convertedAmount is always a defined number, never NaN or undefined.
C6_NeverNaN == convertedAmount # NaN /\ convertedAmount # Undefined

\* a * rates[to] in JavaScript, for a rate that is a number
Product(a, r) == IF a = NaN THEN NaN ELSE a * r

\* C7: when the rates state has an entry for to, after the amount was typed
\* and the auto-conversion ran, and after a click on Convert,
\* convertedAmount = amount * rates[to].
C7_ConversionResult ==
    (Idle /\ HasEntry /\ event \in {"type", "convert"})
        => convertedAmount = Product(amount, data.m[to])

\* 2 usd typed with the rate usd -> inr at 2
C7_Witness ==
    /\ Idle
    /\ event = "type"
    /\ changed = 1
    /\ from = "usd"
    /\ to = "inr"
    /\ HasEntry
    /\ amount = 2
    /\ convertedAmount = 4

\* C10 as claimed: the auto-conversion runs once per changed dependency of
\* the update, also when one handler changed several.
C10_OncePerChangedCell == (Idle /\ event # "mount") => runs = changed

\* C10 as the code has it: the auto-conversion runs once per render in which
\* at least one of its dependencies changed (and once on mount), however
\* many of them the handler changed.
C10_OncePerRender ==
    Idle => runs = (IF event = "mount" \/ changed > 0 THEN 1 ELSE 0)

\* a swap changed both to and amount, and the auto-conversion ran once
C10_Witness ==
    /\ Idle
    /\ event = "swap"
    /\ changed = 2
    /\ runs = 1

-----------------------------------------------------------------------------
(* Properties of the password generator (under SpecPW) *)

SeqToSet(q) == {q[i] : i \in 1 .. Len(q)}

\* the characters a password may hold: the 52 letters, the digits if numbers
\* are allowed, the symbols if they are
AllowedChars ==
    SeqToSet(Letters)
    \cup (IF numberAllowed THEN SeqToSet(Digits) ELSE {})
    \cup (IF charAllowed THEN SeqToSet(Symbols) ELSE {})

\* C8: once the generation effect has run, the password has exactly length
\* characters, each of the allowed ones; the slider keeps length in 6..50.
C8_LengthAndAlphabet ==
    /\ length \in SliderMin .. SliderMax
    /\ Cardinality(SeqToSet(Letters)) = 52
    /\ ~pwPend => /\ Len(password) = length
                  /\ SeqToSet(password) \subseteq AllowedChars

\* Scenario C, regenerated: 6 characters, letters only
C8_Witness ==
    /\ ~pwPend
    /\ pwEvent = "regenerate"
    /\ length = 6
    /\ ~numberAllowed
    /\ ~charAllowed
    /\ Len(password) = 6

\* C9: the generator runs once on mount, once after a change of length,
\* numberAllowed or charAllowed, once per regenerate click, and not otherwise:
\* a copy click and a timer resetting copied schedule and run no generation.
C9_RegenerationTriggers ==
    /\ pwPend => /\ pwGens = 0
                 /\ pwEvent = "mount" \/ pwChanged
    /\ ~pwPend => pwGens = (IF \/ pwEvent \in {"mount", "regenerate"}
                               \/ pwChanged
                              THEN 1 ELSE 0)
    /\ pwChanged => pwEvent \in {"slide", "toggleNumber", "toggleChar"}

\* a copy click on a generated password: copied is set, nothing was generated
C9_Witness ==
    /\ pwEvent = "copy"
    /\ copied
    /\ ~pwPend
    /\ pwGens = 0
    /\ Len(password) = length

-----------------------------------------------------------------------------
(* Properties of the currency converter, second part (under Spec) *)

\* the promise chain of a fetch that settles with resp reaches a setData call
CallsSetData(resp) == HasCatch \/ ~Rejected(resp)

C12_OnePendingPerKey ==
    \A i, j \in 1 .. Len(inflight) : inflight[i] = inflight[j] => i = j

\* C13: a fetch is issued once at mount and once for each update that changes
\* the value of from, and at no other time: typing an amount, changing to,
\* Convert, re-selecting the current from, a swap with from = to, the settling
\* of a fetch and the unmount issue none.
C13_RefetchOnlyOnChange ==
    /\ ~Idle => fetches = 0
    /\ Idle => fetches = (IF event = "mount" \/ fromChanged THEN 1 ELSE 0)
    /\ event \in {"type", "selectTo", "convert", "resolve", "unmount"} => fetches = 0
    /\ fromChanged => event \in {"selectFrom", "swap"}

\* a swap of equal currencies has run its effects and issued no fetch
C13_Witness ==
    /\ event = "swap"
    /\ from = to
    /\ Idle
    /\ fetches = 0
    /\ runs = 1

\* C14: one swap click sets from to the pre-swap to, to to the pre-swap from,
\* amount to the pre-swap convertedAmount and convertedAmount to the pre-swap
\* amount, all four read from the state of the click; the rates take no part.
C14_SwapIsExchange ==
    [][(Idle /\ event' = "swap") =>
          /\ from' = to
          /\ to' = from
          /\ amount' = convertedAmount
          /\ convertedAmount' = amount
          /\ data' = data]_vars

\* the state right after a swap of the initial values, before its effects run
C14_Witness ==
    /\ event = "swap"
    /\ ~Idle
    /\ from = "inr"
    /\ to = "usd"
    /\ amount = 0
    /\ convertedAmount = 1

\* the rates are those of from and the displayed result is amount * rates[to]
Reconciled ==
    /\ Quiescent
    /\ data = JObj(FullRates(from))
    /\ convertedAmount = Product(amount, FullRates(from)[to])

\* C15: after a swap the displayed result may differ from amount * rate only
\* transiently: when the fetches resolve in issue order and no input follows
\* the swap, the converter reaches a state where the rates are those of the
\* new from and convertedAmount = amount * rates[to].
C15_SwapReconciled == quiet ~> Reconciled

\* after the swap of 1 usd = 2 inr and the resolution of the fetch for inr,
\* 2 inr = 6 usd is displayed
C15_Witness ==
    /\ quiet
    /\ Reconciled
    /\ from = "inr"
    /\ to = "usd"
    /\ amount = 2
    /\ convertedAmount = 6
    /\ event = "resolve"

-----------------------------------------------------------------------------
(* Properties of the effects of both widgets (under SpecBoth) *)

\* C16: a run of the auto-conversion effect changes convertedAmount only and
\* leaves amount, from, to and the rates state as they were; a run of the
\* password-generation effect changes password only and leaves length,
\* numberAllowed, charAllowed and copied as they were.
C16_DerivationsWriteOutput ==
    [][/\ (pendAuto /\ ~pendAuto') => UNCHANGED <<amount, from, to, data>>
       /\ (pwPend /\ ~pwPend') => UNCHANGED <<length, numberAllowed, charAllowed, copied>>]_vars

\* the auto-conversion has run on the rates that arrived and changed the
\* result; the generation has run after a toggle while copied was shown
C16_Witness ==
    /\ event = "resolve"
    /\ runs = 1
    /\ Idle
    /\ convertedAmount = 2
    /\ pwEvent = "toggleNumber"
    /\ pwGens = 1
    /\ ~pwPend
    /\ copied
    /\ password # <<>>

-----------------------------------------------------------------------------
(* Properties of the counter (under SpecCounter) *)

\* C17: starting from 15, every click on Add Value adds exactly 1 and every
\* click on Remove Value subtracts exactly 1: after n adds and m removes the
\* counter is 15 + n - m, below zero and above any limit included.
C17_CounterValue == counter = 15 + adds - removes

\* sixteen removes and no add: the counter has gone below zero
C17_Witness ==
    /\ adds = 0
    /\ removes = 16
    /\ counter = 0 - 1

-----------------------------------------------------------------------------
(* Properties of batched updates (under SpecBatch) *)

\* C18: k calls setCount(count + 1) in one handler all read the count of the
\* same render and leave the state increased by exactly 1; k calls
\* setCount(prev => prev + 1) are applied in order to the latest state and
\* leave it increased by exactly k; for k = 3 from 69: 70 and 72.
C18_BatchedUpdates ==
    /\ form = "direct" => count = before + 1
    /\ form = "functional" => count = before + calls
    /\ (form = "direct" /\ calls = 3 /\ before = 69) => count = 70
    /\ (form = "functional" /\ calls = 3 /\ before = 69) => count = 72

\* three direct calls from 69
C18_Witness ==
    /\ form = "direct"
    /\ calls = 3
    /\ before = 69
    /\ count = 70

-----------------------------------------------------------------------------
(* Properties of the password generator, second part (under SpecPW) *)

VeryStrongCase == length >= 16 /\ numberAllowed /\ charAllowed

StrongCase == ~VeryStrongCase /\ length >= 12 /\ (numberAllowed \/ charAllowed)

MediumCase == ~VeryStrongCase /\ ~StrongCase /\ length >= 8

\* C19: for every length 6..50 and every combination of the flags the label is
\* one of four: Very Strong iff length >= 16 with numbers and symbols both;
\* otherwise Strong iff length >= 12 with numbers or symbols; otherwise Medium
\* iff length >= 8; otherwise Weak.
C19_StrengthLabel ==
    /\ length \in 6 .. 50
    /\ strength \in {"Very Strong", "Strong", "Medium", "Weak"}
    /\ strength = "Very Strong" <=> VeryStrongCase
    /\ strength = "Strong" <=> StrongCase
    /\ strength = "Medium" <=> MediumCase
    /\ strength = "Weak" <=> (~VeryStrongCase /\ ~StrongCase /\ ~MediumCase)

\* sixteen characters with numbers and without symbols: Strong
C19_Witness ==
    /\ length = 16
    /\ numberAllowed
    /\ ~charAllowed
    /\ strength = "Strong"
    /\ ~pwPend
    /\ Len(password) = 16

\* C20: a copy click sets copied to true at once; after every copy click
\* copied returns to false when the timer of a click fires; and copied is
\* never true unless a copy click came before: it becomes true by a copy
\* click only, and while it is true the timer of a click is still to fire.
C20_CopiedResets ==
    /\ [](pwEvent = "copy" => copied)
    /\ [](copied => timers > 0)
    /\ [][(~copied /\ copied') => pwEvent' = "copy"]_vars
    /\ [][(timers' < timers) => ~copied']_vars
    /\ copied ~> ~copied

\* the timer of the one copy click has fired: the feedback is gone
C20_Witness ==
    /\ pwEvent = "timer"
    /\ ~copied
    /\ timers = 0
    /\ ~pwPend
    /\ password # <<>>

-----------------------------------------------------------------------------
(* Properties of the effects of both widgets (under SpecEffects) *)

\* C21: after a user action, and after the settling of a fetch, the chain of
\* effect runs ends: each widget reaches a state with no effect scheduled,
\* after at most one run of each effect; and no run of an effect changes a
\* value of its own dependency list (from for the fetch; amount, the rates
\* and to for the auto-conversion; length, numberAllowed and charAllowed for
\* the generation).
C21_NoInfiniteRerender ==
    /\ ~Idle ~> Idle
    /\ pwPend ~> ~pwPend
    /\ [](fetches <= 1 /\ runs <= 1 /\ pwGens <= 1)
    /\ [][(fetches' = fetches + 1) => from' = from]_vars
    /\ [][(runs' = runs + 1) => UNCHANGED <<amount, data, to>>]_vars
    /\ [][(pwGens' = pwGens + 1) => UNCHANGED <<length, numberAllowed, charAllowed>>]_vars

\* a failed fetch has settled and the auto-conversion it scheduled has run;
\* the generation a toggle scheduled has run; nothing is scheduled
C21_Witness ==
    /\ event = "resolve"
    /\ settled.net = "error"
    /\ runs = 1
    /\ Idle
    /\ pwEvent = "toggleNumber"
    /\ pwGens = 1
    /\ ~pwPend

-----------------------------------------------------------------------------
(* Properties of the context demo (under SpecContext) *)

\* C22: Login and Profile share one user state: it is null at first; Profile
\* shows the logged-in view with the submitted username iff user is not null
\* and "Please log in first" otherwise; a submit that goes through makes user
\* the submitted {username, password}; Logout makes it null again; the view
\* reflects the last operation that went through.
C22_SharedUser ==
    /\ lastOp = "none" => user = NoUser
    /\ lastOp = "login" =>
          user = [set |-> TRUE, username |-> lastCreds[1], password |-> lastCreds[2]]
    /\ lastOp = "logout" => user = NoUser
    /\ user.set <=> ProfileView.text = "Logged In"
    /\ ~user.set <=> ProfileView.text = "Please log in first"
    /\ lastOp = "login" => ProfileView.username = lastCreds[1]
    /\ ProfileView.logout <=> user.set

\* Profile shows the username of the login that went through last
C22_Witness ==
    /\ lastOp = "login"
    /\ cxEvent = "submit"
    /\ lastCreds = << <<"a", "a">>, <<"a">> >>
    /\ ProfileView.text = "Logged In"
    /\ ProfileView.username = <<"a", "a">>

\* a text that holds white space only, or nothing
Blank(t) == \A i \in 1 .. Len(t) : t[i] = " "

\* C26: a submit whose username or password is empty or white space only
\* changes neither user nor the fields; a submit with both fields non-blank
\* makes user the two fields and clears both.
C26_RejectedLogin ==
    [][(cxEvent' = "submit") =>
          IF Blank(loginUsername) \/ Blank(loginPassword)
              THEN UNCHANGED <<user, loginUsername, loginPassword>>
              ELSE /\ user' = [set |-> TRUE, username |-> loginUsername,
                                password |-> loginPassword]
                   /\ loginUsername' = <<>>
                   /\ loginPassword' = <<>>]_vars

\* a logged-in user stays logged in after a submit with a blank password, and
\* the fields keep their text
C26_Witness ==
    /\ cxEvent = "submit"
    /\ alerted
    /\ user.set
    /\ loginUsername = <<"a">>
    /\ loginPassword = <<" ">>

-----------------------------------------------------------------------------
(* Properties of the background changer (under SpecBg) *)

\* C23: the changer offers 14 color options: once every button has been
\* clicked, the clicks have set 14 distinct background colors.
C23_FourteenColors ==
    (\A i \in Buttons : ButtonSets[i] \in seen) => Cardinality(seen) = 14

\* C27: the background is cyan at first and, after any clicks, has the color
\* of the button clicked last; it is always a color a button shows; and a
\* click changes nothing but the background.
C27_FollowsLastClick ==
    /\ [](lastButton = 0 => bgColor = "cyan")
    /\ [](lastButton # 0 => bgColor = ButtonStyles[lastButton])
    /\ [](bgColor \in {ButtonStyles[i] : i \in Buttons})
    /\ [][UNCHANGED notBG]_vars

\* the last of several clicks was on Brown
C27_Witness ==
    /\ lastButton = 14
    /\ bgColor = "brown"
    /\ Cardinality(seen) > 2

-----------------------------------------------------------------------------
(* Properties of the router (under SpecRouter) *)

\* C24: on a navigation to /github the router calls githubLoader first and
\* waits for it: Github is never rendered before the promise of the loader
\* has resolved, and whenever it is rendered useLoaderData yields exactly the
\* value the loader returned, from the first render on.
C24_LoaderBeforeRender ==
    /\ [](element = "Github" => (loaderData.loaded /\ loaderData = returned))
    /\ [](element = "Github" => visits > 0)
    /\ [](navigation = "loading" => (loads # <<>> /\ loads[Len(loads)]))
    /\ [][(rtEvent' = "navigate") => (element' = element /\ loaderData' = loaderData)]_vars
    /\ [][(element' = "Github" /\ (element # "Github" \/ loaderData' # loaderData))
             => rtEvent' = "resolved"]_vars

\* the first render of Github, with the two followers the loader returned
C24_Witness ==
    /\ element = "Github"
    /\ rtEvent = "resolved"
    /\ visits = 1
    /\ loaderData = [loaded |-> TRUE, followers |-> 2]
    /\ navigation = "idle"

-----------------------------------------------------------------------------
(* Properties of the currency converter, third part (under Spec) *)

\* C28: in every state of the converter where no effect is scheduled and the
\* rates state has an entry for to, convertedAmount = amount * rates[to],
\* whatever typing, selections, swaps, Convert clicks and settled fetches
\* came before.
C28_QuiescentConsistency ==
    (Idle /\ HasEntry) => convertedAmount = Product(amount, data.m[to])

\* after a swap and its effects, while the fetch for the new from is pending:
\* the result is the amount times the entry of the rates still held
C28_Witness ==
    /\ Idle
    /\ HasEntry
    /\ event = "swap"
    /\ from = "inr"
    /\ to = "usd"
    /\ dataKey = "usd"
    /\ inflight = <<"inr">>
    /\ amount = 2
    /\ convertedAmount = 2

-----------------------------------------------------------------------------
(* Properties of the password generator, third part *)

\* C29: when copy is clicked again while copied is still true, copied stays
\* true until the timer of the second click fires: as long as the timer of a
\* click is still to fire, the timer of an earlier click has not reset it.
C29_OverlappingTimers == timers > 0 => copied

\* C30: whatever slider moves, toggles, regenerate clicks and copy clicks
\* came before, the text a copy click writes to the clipboard is the password
\* displayed at the click: the handler never uses the password of an earlier
\* render.
C30_ClipboardMatchesDisplay ==
    /\ [][(pwEvent' = "copy") => clipboard' = password]_vars
    /\ [](~pwPend => copyClosure = password)
    /\ [](pwEvent = "copy" => clipboard = password)

\* a copy click after a regeneration at 50 characters, the clipboard holding
\* the password of an earlier click before
C30_Witness ==
    /\ pwEvent = "copy"
    /\ length = 50
    /\ timers = 2
    /\ ~numberAllowed
    /\ clipboard = password
    /\ Len(clipboard) = 50

=============================================================================
